---- MODULE Spec2Model ----
(***************************************************************************)
(* A model of the camera object tracking service:                          *)
(*   - Track (src/src/tracker/track.py): the per-object record and its     *)
(*     methods, as operators on a record;                                  *)
(*   - TrackerService (src/src/tracker_service.py): reconfigure, the       *)
(*     stop_and_get_new_tracker task, the reader requests and close;       *)
(*   - the engine (Tracker) and its per-cycle lifecycle rules, whose       *)
(*     source is not part of the tree and is taken from the design         *)
(*     document.                                                           *)
(* Four specifications share the variables: Spec (the service),            *)
(* TrackSpec (any sequence of Track method calls), DetectionSpec (a Track  *)
(* read with get_detection) and LifecycleSpec (the engine's cycles applied *)
(* to one track).                                                          *)
(***************************************************************************)
EXTENDS Integers, Sequences, FiniteSets

VARIABLES
    \* ---- Track ----
    t,              \* the Track object (a record of its attributes)
    ops,            \* number of mutating Track method calls so far
    iou_call,       \* the call of Track.iou made on the track as it is now, if any
    detection_call, \* the call of Track.get_detection made on the track as it is now, if any
    \* ---- the engine's Track Table, one cycle at a time ----
    cfg,            \* the TrackingConfig the engine was built from
    table,          \* live tracks: track id -> Track
    removed_tracks, \* tracks retained for re-identification: track id -> Track
    misses,         \* consecutive cycles the live track went unmatched
    next_id,        \* the next fresh track id
    cycles,         \* processing cycles run so far
    event,          \* what the last cycle did to the track
    \* ---- TrackerService ----
    camera_name,    \* self.camera_name
    camera,         \* self.camera
    detector,       \* self.detector
    embedder,       \* self.embedder
    tracker,        \* self.tracker: an index into engines, or None
    engines,        \* every Tracker constructed so far, in order
    tasks,          \* stop_and_get_new_tracker tasks created and not finished,
                    \* each with whether close had been called before it
    reconfigures,   \* reconfigure calls so far
    reconfigure_result, \* how the last reconfigure call ended
    close_pc,       \* where the close call in progress is
    close_target,   \* the engine whose stop that close awaits
    closes,         \* close calls so far
    closes_ok,      \* close calls that returned
    close_result,   \* how the last close call ended
    response        \* the outcome of the last reader request

trackVars == <<t, ops, iou_call, detection_call>>

lifecycleVars == <<cfg, table, removed_tracks, misses, next_id, cycles, event>>

serviceVars ==
    <<camera_name, camera, detector, embedder, tracker, engines, tasks,
      reconfigures, reconfigure_result, close_pc, close_target, closes,
      closes_ok, close_result, response>>

vars ==
    <<t, ops, iou_call, detection_call, cfg, table, removed_tracks, misses, next_id, cycles,
      event, camera_name, camera, detector, embedder, tracker, engines, tasks,
      reconfigures, reconfigure_result, close_pc, close_target, closes,
      closes_ok, close_result, response>>

----------------------------------------------------------------------------
(* Bounds of the model *)

\* Mutating Track method calls explored by TrackSpec.
MaxOps == 3

\* Processing cycles explored by LifecycleSpec.
MaxCycles == 6

\* reconfigure calls explored by Spec.
MaxReconfigures == 3

\* close calls explored by Spec.
MaxCloses == 2

----------------------------------------------------------------------------
(* Boxes: numpy arrays [x1, y1, x2, y2], here 4-tuples of integers *)

Max(a, b) == IF a >= b THEN a ELSE b

Min(a, b) == IF a <= b THEN a ELSE b

BoxAdd(a, b) == [i \in 1..4 |-> a[i] + b[i]]

BoxSub(a, b) == [i \in 1..4 |-> a[i] - b[i]]

ZeroVelocity == <<0, 0, 0, 0>>

Ordered(b) == b[1] <= b[3] /\ b[2] <= b[4]

\* A box is a rectangle of positive area when it is ordered and not flat.
PositiveArea(b) == b[1] < b[3] /\ b[2] < b[4]

\* Detector boxes given to the constructor and to update: all ordered.
Boxes == { <<0, 0, 6, 6>>, <<2, 2, 4, 4>>, <<1, 1, 7, 7>> }

Features == {"f1", "f2"}

\* Distances are kept in hundredths: 5 is 0.05.
Distances == {5, 30, 45}

\* The detections of a cycle: bbox, feature vector, match distance.
Detections ==
    { [bbox |-> <<0, 0, 6, 6>>, feature_vector |-> "f1", distance |-> 5],
      [bbox |-> <<2, 2, 4, 4>>, feature_vector |-> "f1", distance |-> 30],
      [bbox |-> <<1, 1, 7, 7>>, feature_vector |-> "f2", distance |-> 5],
      [bbox |-> <<2, 2, 4, 4>>, feature_vector |-> "f2", distance |-> 45] }

TrackIds == {1, 2}

NoLabel == "None"

----------------------------------------------------------------------------
(* Track: src/src/tracker/track.py *)

\* Track.__init__ with a fault: the history starts empty.
Track_with_empty_history(track_id, bbox, feature_vector, distance, label, is_candidate) ==
    [ track_id        |-> track_id,
      bbox            |-> bbox,
      predicted_bbox  |-> bbox,
      feature_vector  |-> feature_vector,
      age             |-> 0,
      history         |-> <<>>,
      velocity        |-> ZeroVelocity,
      distance        |-> distance,
      label           |-> label,
      persistence     |-> 0,
      min_persistence |-> 3,
      is_candidate    |-> is_candidate,
      is_detected     |-> TRUE ]

\* Track.__init__
Track(track_id, bbox, feature_vector, distance, label, is_candidate) ==
    [ track_id        |-> track_id,
      bbox            |-> bbox,
      predicted_bbox  |-> bbox,
      feature_vector  |-> feature_vector,
      age             |-> 0,
      history         |-> <<bbox>>,
      velocity        |-> ZeroVelocity,
      distance        |-> distance,
      label           |-> label,
      persistence     |-> 0,
      min_persistence |-> 3,
      is_candidate    |-> is_candidate,
      is_detected     |-> TRUE ]

\* Track.predict
predict(self) == BoxAdd(self.bbox, self.velocity)

\* update with a fault: a match restarts the persistence count.
update_resets_persistence(self, bbox, feature_vector, distance) ==
    LET moved == [self EXCEPT !.distance = distance,
                              !.velocity = BoxSub(bbox, self.bbox),
                              !.bbox = bbox,
                              !.history = Append(self.history, bbox),
                              !.feature_vector = feature_vector,
                              !.age = 0,
                              !.persistence = 0]
    IN  [moved EXCEPT !.predicted_bbox = predict(moved)]

\* update with a fault: the track keeps the feature vector it had.
update_keeps_feature_vector(self, bbox, feature_vector, distance) ==
    [self EXCEPT !.distance = distance,
                 !.velocity = BoxSub(bbox, self.bbox),
                 !.bbox = bbox,
                 !.history = Append(self.history, bbox),
                 !.age = 0,
                 !.predicted_bbox = BoxAdd(bbox, BoxSub(bbox, self.bbox))]

\* update with a fault: the new box replaces the last entry of the history.
update_overwrites_history(self, bbox, feature_vector, distance) ==
    [self EXCEPT !.distance = distance,
                 !.velocity = BoxSub(bbox, self.bbox),
                 !.bbox = bbox,
                 !.history = [self.history EXCEPT ![Len(self.history)] = bbox],
                 !.feature_vector = feature_vector,
                 !.age = 0,
                 !.predicted_bbox = BoxAdd(bbox, BoxSub(bbox, self.bbox))]

\* update with a fault: the prediction is made before the velocity is renewed.
update_predicts_with_stale_velocity(self, bbox, feature_vector, distance) ==
    [self EXCEPT !.distance = distance,
                 !.velocity = BoxSub(bbox, self.bbox),
                 !.bbox = bbox,
                 !.history = Append(self.history, bbox),
                 !.feature_vector = feature_vector,
                 !.age = 0,
                 !.predicted_bbox = BoxAdd(bbox, self.velocity)]

\* Track.update
update(self, bbox, feature_vector, distance) ==
    LET moved == [self EXCEPT !.distance = distance,
                              !.velocity = BoxSub(bbox, self.bbox),
                              !.bbox = bbox,
                              !.history = Append(self.history, bbox),
                              !.feature_vector = feature_vector,
                              !.age = 0]
    IN  [moved EXCEPT !.predicted_bbox = predict(moved)]

\* Track.change_track_id
change_track_id(self, new_track_id) == [self EXCEPT !.track_id = new_track_id]

\* Track.increment_persistence
increment_persistence(self) == [self EXCEPT !.persistence = self.persistence + 1]

\* Track.get_persistence
get_persistence(self) == self.persistence

\* increment_age with a fault: a miss restarts the persistence count.
increment_age_resets_persistence(self) ==
    [self EXCEPT !.age = self.age + 1, !.bbox = predict(self), !.persistence = 0]

\* increment_age with a fault: a miss counts twice.
increment_age_twice(self) ==
    [self EXCEPT !.age = self.age + 2, !.bbox = predict(self)]

\* increment_age with a fault: the extrapolated box is recorded as observed.
increment_age_appends_history(self) ==
    [self EXCEPT !.age = self.age + 1,
                 !.bbox = predict(self),
                 !.history = Append(self.history, predict(self))]

\* increment_age with a fault: a miss also moves the prediction on.
increment_age_refreshes_prediction(self) ==
    [self EXCEPT !.age = self.age + 1,
                 !.bbox = predict(self),
                 !.predicted_bbox = BoxAdd(predict(self), self.velocity)]

\* Track.increment_age
increment_age(self) ==
    [self EXCEPT !.age = self.age + 1, !.bbox = predict(self)]

\* The result of Track.iou, a quotient kept as numerator and denominator.
\* The division is the code's "inter_area / union_area if union_area > 0 else 0".
Quotient(inter_area, union_area, divides) ==
    IF divides THEN [num |-> inter_area, den |-> union_area]
               ELSE [num |-> 0, den |-> 1]

\* iou with a fault: the union does not discount the intersection.
iou_union_keeps_intersection(self, bbox) ==
    LET x1_inter == Max(self.predicted_bbox[1], bbox[1])
        y1_inter == Max(self.predicted_bbox[2], bbox[2])
        x2_inter == Min(self.predicted_bbox[3], bbox[3])
        y2_inter == Min(self.predicted_bbox[4], bbox[4])
        inter_area == Max(0, x2_inter - x1_inter) * Max(0, y2_inter - y1_inter)
        track_area == (self.predicted_bbox[3] - self.predicted_bbox[1])
                        * (self.predicted_bbox[4] - self.predicted_bbox[2])
        other_area == (bbox[3] - bbox[1]) * (bbox[4] - bbox[2])
        union_area == track_area + other_area
    IN  Quotient(inter_area, union_area, union_area > 0)

\* Track.iou: against the track's predicted_bbox.
iou(self, bbox) ==
    LET x1_inter == Max(self.predicted_bbox[1], bbox[1])
        y1_inter == Max(self.predicted_bbox[2], bbox[2])
        x2_inter == Min(self.predicted_bbox[3], bbox[3])
        y2_inter == Min(self.predicted_bbox[4], bbox[4])
        inter_area == Max(0, x2_inter - x1_inter) * Max(0, y2_inter - y1_inter)
        track_area == (self.predicted_bbox[3] - self.predicted_bbox[1])
                        * (self.predicted_bbox[4] - self.predicted_bbox[2])
        other_area == (bbox[3] - bbox[1]) * (bbox[4] - bbox[2])
        union_area == track_area + other_area - inter_area
    IN  Quotient(inter_area, union_area, union_area > 0)

\* Track.set_is_detected
set_is_detected(self) == [self EXCEPT !.is_detected = TRUE]

\* Track.unset_is_detected
unset_is_detected(self) == [self EXCEPT !.is_detected = FALSE]

\* Track.is_detected
is_detected(self) == self.is_detected

\* Track.progress_bar: "tracking" and a bar of min_persistence cells, the
\* first current_progress of them filled. The bar is kept as the sequence
\* of its cells.
progress_bar(self, current_progress, min_persistence) ==
    LET current == IF self.persistence > min_persistence
                   THEN min_persistence
                   ELSE current_progress
    IN  [ text |-> "tracking",
          bar  |-> [i \in 1..current |-> "*"]
                   \o [i \in 1..(min_persistence - current) |-> "."] ]

\* Track._get_class_name
get_class_name(self) ==
    IF self.is_candidate
    THEN progress_bar(self, self.persistence, self.min_persistence)
    ELSE self.track_id

\* No crop region configured (None).
NoCrop == [configured |-> FALSE]

\* int(rel * size) for a relative coordinate given in hundredths: the
\* product cut down to an integer. The relative coordinates used are
\* multiples of a quarter, for which the floating-point product is exact.
int_rel(rel, size) == (rel * size) \div 100

\* The Detection a track is reported as; confidence in hundredths.
Detection(x_min, y_min, x_max, y_max, confidence, class_name) ==
    [ x_min |-> x_min, y_min |-> y_min, x_max |-> x_max, y_max |-> y_max,
      confidence |-> confidence, class_name |-> class_name ]

\* get_detection with a fault: the distance is reported as the confidence.
get_detection_confidence_is_distance(self, crop_region, original_image_width, original_image_height) ==
    LET class_name == get_class_name(self)
        x_offset == int_rel(crop_region.x1_rel, original_image_width)
        y_offset == int_rel(crop_region.y1_rel, original_image_height)
    IN  IF crop_region # NoCrop
        THEN Detection(Min(original_image_width - 1, self.bbox[1] + x_offset),
                       Min(original_image_height - 1, self.bbox[2] + y_offset),
                       Min(original_image_width - 1, self.bbox[3] + x_offset),
                       Min(original_image_height - 1, self.bbox[4] + y_offset),
                       self.distance, class_name)
        ELSE Detection(self.bbox[1], self.bbox[2], self.bbox[3], self.bbox[4],
                       self.distance, class_name)

\* get_detection with a fault: the vertical offset is taken from the width.
get_detection_y_offset_from_width(self, crop_region, original_image_width, original_image_height) ==
    LET class_name == get_class_name(self)
        x_offset == int_rel(crop_region.x1_rel, original_image_width)
        y_offset == int_rel(crop_region.y1_rel, original_image_width)
    IN  IF crop_region # NoCrop
        THEN Detection(Min(original_image_width - 1, self.bbox[1] + x_offset),
                       Min(original_image_height - 1, self.bbox[2] + y_offset),
                       Min(original_image_width - 1, self.bbox[3] + x_offset),
                       Min(original_image_height - 1, self.bbox[4] + y_offset),
                       100 - self.distance, class_name)
        ELSE Detection(self.bbox[1], self.bbox[2], self.bbox[3], self.bbox[4],
                       100 - self.distance, class_name)

\* Track.get_detection
get_detection(self, crop_region, original_image_width, original_image_height) ==
    LET class_name == get_class_name(self)
        x_offset == int_rel(crop_region.x1_rel, original_image_width)
        y_offset == int_rel(crop_region.y1_rel, original_image_height)
    IN  IF crop_region # NoCrop
        THEN Detection(Min(original_image_width - 1, self.bbox[1] + x_offset),
                       Min(original_image_height - 1, self.bbox[2] + y_offset),
                       Min(original_image_width - 1, self.bbox[3] + x_offset),
                       Min(original_image_height - 1, self.bbox[4] + y_offset),
                       100 - self.distance, class_name)
        ELSE Detection(self.bbox[1], self.bbox[2], self.bbox[3], self.bbox[4],
                       100 - self.distance, class_name)

----------------------------------------------------------------------------
(* TrackerService: src/src/tracker_service.py *)

None == 0

Unset == "unset"

NoResource == [kind |-> "None", service |-> "", config |-> 0]

NoResponse ==
    [ method                     |-> "none",
      return_classifications     |-> FALSE,
      return_object_point_clouds |-> FALSE,
      outcome                    |-> "none",
      value                      |-> "none" ]

\* TrackerService.__init__; camera_name is not an attribute yet.
ServiceConstructed ==
    /\ camera_name = Unset
    /\ camera = "None"
    /\ detector = NoResource
    /\ embedder = NoResource
    /\ tracker = None
    /\ engines = <<>>
    /\ tasks = {}
    /\ reconfigures = 0
    /\ reconfigure_result = "none"
    /\ close_pc = "idle"
    /\ close_target = None
    /\ closes = 0
    /\ closes_ok = 0
    /\ close_result = "none"
    /\ response = NoResponse

----------------------------------------------------------------------------
(* TrackSpec: any sequence of Track method calls on one Track *)

NoIouCall == [called |-> FALSE]

NoDetectionCall == [called |-> FALSE]

EmptyTable == [id \in {} |-> 0]

DefaultConfig ==
    [min_track_persistence |-> 4, max_age_track |-> 1000, re_id_threshold |-> 30]

\* The Track part of the state while no Track method is being explored.
TrackIdle ==
    /\ t = Track(1, <<0, 0, 6, 6>>, "f1", 5, NoLabel, FALSE)
    /\ ops = 0
    /\ iou_call = NoIouCall
    /\ detection_call = NoDetectionCall

\* The Track Table part of the state while TrackSpec runs: no engine.
LifecycleIdle ==
    /\ cfg = DefaultConfig
    /\ table = EmptyTable
    /\ removed_tracks = EmptyTable
    /\ misses = 0
    /\ next_id = 1
    /\ cycles = 0
    /\ event = "none"

\* Boxes handed to iou: detector boxes, a flat box, boxes inverted in one
\* and in both dimensions, and a box disjoint from all the others.
IouBoxes ==
    Boxes \cup { <<3, 0, 3, 6>>, <<5, 1, 2, 4>>, <<6, 6, 1, 1>>, <<20, 20, 26, 26>> }

InitTrack ==
    /\ \E d \in Detections, id \in TrackIds, c \in BOOLEAN :
          t = Track(id, d.bbox, d.feature_vector, d.distance, NoLabel, c)
    /\ ops = 0
    /\ iou_call = NoIouCall
    /\ detection_call = NoDetectionCall
    /\ LifecycleIdle
    /\ ServiceConstructed

Update(d) ==
    /\ ops < MaxOps
    /\ t' = update(t, d.bbox, d.feature_vector, d.distance)
    /\ ops' = ops + 1
    /\ iou_call' = NoIouCall
    /\ detection_call' = NoDetectionCall
    /\ UNCHANGED lifecycleVars
    /\ UNCHANGED serviceVars

IncrementAge ==
    /\ ops < MaxOps
    /\ t' = increment_age(t)
    /\ ops' = ops + 1
    /\ iou_call' = NoIouCall
    /\ detection_call' = NoDetectionCall
    /\ UNCHANGED lifecycleVars
    /\ UNCHANGED serviceVars

IncrementPersistence ==
    /\ ops < MaxOps
    /\ t' = increment_persistence(t)
    /\ ops' = ops + 1
    /\ iou_call' = NoIouCall
    /\ detection_call' = NoDetectionCall
    /\ UNCHANGED lifecycleVars
    /\ UNCHANGED serviceVars

SetIsDetected ==
    /\ ops < MaxOps
    /\ t' = set_is_detected(t)
    /\ ops' = ops + 1
    /\ iou_call' = NoIouCall
    /\ detection_call' = NoDetectionCall
    /\ UNCHANGED lifecycleVars
    /\ UNCHANGED serviceVars

UnsetIsDetected ==
    /\ ops < MaxOps
    /\ t' = unset_is_detected(t)
    /\ ops' = ops + 1
    /\ iou_call' = NoIouCall
    /\ detection_call' = NoDetectionCall
    /\ UNCHANGED lifecycleVars
    /\ UNCHANGED serviceVars

ChangeTrackId(new_track_id) ==
    /\ ops < MaxOps
    /\ t' = change_track_id(t, new_track_id)
    /\ ops' = ops + 1
    /\ iou_call' = NoIouCall
    /\ detection_call' = NoDetectionCall
    /\ UNCHANGED lifecycleVars
    /\ UNCHANGED serviceVars

\* A call of iou leaves the track as it is; the model keeps the argument and
\* the result, and whether the code's guard let the division happen.
Iou(bbox) ==
    /\ iou_call' = [called |-> TRUE, bbox |-> bbox, result |-> iou(t, bbox)]
    /\ UNCHANGED <<t, ops, detection_call>>
    /\ UNCHANGED lifecycleVars
    /\ UNCHANGED serviceVars

\* The detection that lies exactly where the track was predicted to be,
\* when that is a box a detector can report.
PredictedDetections ==
    IF PositiveArea(t.predicted_bbox)
    THEN {[bbox |-> t.predicted_bbox, feature_vector |-> "f1", distance |-> 5]}
    ELSE {}

NextTrack ==
    \/ \E d \in Detections \cup PredictedDetections : Update(d)
    \/ IncrementAge
    \/ IncrementPersistence
    \/ SetIsDetected
    \/ UnsetIsDetected
    \/ \E id \in TrackIds : ChangeTrackId(id)
    \/ \E b \in IouBoxes \cup {t.predicted_bbox} : Iou(b)

TrackSpec == InitTrack /\ [][NextTrack]_vars

----------------------------------------------------------------------------
(* DetectionSpec: a Track is updated, aged and read with get_detection *)

\* Detections in the coordinates of the cropped image.
LocalDetections ==
    { [bbox |-> <<10, 10, 20, 20>>, feature_vector |-> "f1", distance |-> 30],
      [bbox |-> <<12, 11, 22, 21>>, feature_vector |-> "f2", distance |-> 5],
      [bbox |-> <<0, 0, 6, 6>>, feature_vector |-> "f1", distance |-> 45] }

\* TrackingConfig.crop_region: not configured, the middle of the frame, and
\* the lower right part of it; relative coordinates in hundredths.
CropRegions ==
    { NoCrop,
      [x1_rel |-> 25, y1_rel |-> 25, x2_rel |-> 75, y2_rel |-> 75],
      [x1_rel |-> 50, y1_rel |-> 25, x2_rel |-> 100, y2_rel |-> 100] }

\* Frame sizes, width and height in pixels.
Frames == { <<400, 400>>, <<402, 302>>, <<30, 30>> }

InitDetection ==
    /\ \E d \in LocalDetections, id \in TrackIds, c \in BOOLEAN :
          t = Track(id, d.bbox, d.feature_vector, d.distance, NoLabel, c)
    /\ ops = 0
    /\ iou_call = NoIouCall
    /\ detection_call = NoDetectionCall
    /\ LifecycleIdle
    /\ ServiceConstructed

\* A call of get_detection leaves the track as it is; the model keeps the
\* arguments and the Detection returned.
GetDetection(crop_region, original_image_width, original_image_height) ==
    /\ detection_call' =
          [ called |-> TRUE,
            crop_region |-> crop_region,
            original_image_width |-> original_image_width,
            original_image_height |-> original_image_height,
            result |-> get_detection(t, crop_region, original_image_width,
                                     original_image_height) ]
    /\ UNCHANGED <<t, ops, iou_call>>
    /\ UNCHANGED lifecycleVars
    /\ UNCHANGED serviceVars

NextDetection ==
    \/ \E d \in LocalDetections : Update(d)
    \/ IncrementAge
    \/ IncrementPersistence
    \/ \E crop_region \in CropRegions, frame \in Frames :
          GetDetection(crop_region, frame[1], frame[2])

DetectionSpec == InitDetection /\ [][NextDetection]_vars

----------------------------------------------------------------------------
(* LifecycleSpec: the engine's per-cycle rules applied to the Track Table. *)
(* The engine class is not part of the source tree; its rules are those of *)
(* the design document (Lifecycle Controller), built from the Track        *)
(* methods above.  The table holds at most one live track, and one removed *)
(* track is retained for re-identification.                                *)

\* TrackingConfig.min_track_persistence: an integer >= 0, 4 by default.
MinTrackPersistenceChoices == {2, 4}

\* TrackingConfig.max_age_track: an integer in 0..100000.
MaxAgeTrackChoices == {0, 1, 3}

\* TrackingConfig: the fields the lifecycle rules read.
TrackingConfig(min_track_persistence, max_age_track) ==
    [ min_track_persistence |-> min_track_persistence,
      max_age_track         |-> max_age_track,
      re_id_threshold       |-> 30 ]

Single(id, track) == [i \in {id} |-> track]

Live == DOMAIN table

Retained == DOMAIN removed_tracks

\* Promotion, one way: a candidate whose persistence has reached the
\* configured minimum becomes a confirmed track.
Promote(track) ==
    IF track.is_candidate /\ get_persistence(track) >= cfg.min_track_persistence
    THEN [track EXCEPT !.is_candidate = FALSE]
    ELSE track

\* Matched existing track.
Matched(track, d) ==
    Promote(set_is_detected(increment_persistence(
        update(track, d.bbox, d.feature_vector, d.distance))))

\* Unmatched existing track, before the eviction test.
Unmatched(track) == unset_is_detected(increment_age(track))

\* Eviction is by age alone.
Evicted(track) == track.age > cfg.max_age_track

\* Unmatched detection, not re-identified: a new candidate whose creation
\* counts as its first match.
NewCandidate(id, d) ==
    increment_persistence(
        Track(id, d.bbox, d.feature_vector, d.distance, NoLabel, TRUE))

\* Unmatched detection re-identified: the retained track comes back with the
\* detection's geometry and feature, keeping its id, persistence and status.
Reactivated(track, d) ==
    set_is_detected(update(track, d.bbox, d.feature_vector, d.distance))

\* Whether an unmatched detection is re-identified as the retained track:
\* d.distance is its feature distance to that track.
ReIdentifies(d) == Retained # {} /\ d.distance <= cfg.re_id_threshold

InitLifecycle ==
    /\ \E m \in MinTrackPersistenceChoices, a \in MaxAgeTrackChoices :
          cfg = TrackingConfig(m, a)
    /\ table = EmptyTable
    /\ removed_tracks = EmptyTable
    /\ misses = 0
    /\ next_id = 1
    /\ cycles = 0
    /\ event = "none"
    /\ TrackIdle
    /\ ServiceConstructed

CycleMatched(d) ==
    /\ cycles < MaxCycles
    /\ \E id \in Live :
          table' = [table EXCEPT ![id] = Matched(table[id], d)]
    /\ misses' = 0
    /\ cycles' = cycles + 1
    /\ event' = "matched"
    /\ UNCHANGED <<cfg, removed_tracks, next_id>>
    /\ UNCHANGED trackVars
    /\ UNCHANGED serviceVars

CycleUnmatched ==
    /\ cycles < MaxCycles
    /\ \E id \in Live :
          LET aged == Unmatched(table[id])
          IN  IF Evicted(aged)
              THEN /\ table' = EmptyTable
                   /\ removed_tracks' = Single(id, aged)
                   /\ event' = "removed"
              ELSE /\ table' = [table EXCEPT ![id] = aged]
                   /\ event' = "unmatched"
                   /\ UNCHANGED removed_tracks
    /\ misses' = misses + 1
    /\ cycles' = cycles + 1
    /\ UNCHANGED <<cfg, next_id>>
    /\ UNCHANGED trackVars
    /\ UNCHANGED serviceVars

CycleNewCandidate(d) ==
    /\ cycles < MaxCycles
    /\ Live = {}
    /\ ~ReIdentifies(d)
    /\ table' = Single(next_id, NewCandidate(next_id, d))
    /\ next_id' = next_id + 1
    /\ misses' = 0
    /\ cycles' = cycles + 1
    /\ event' = "created"
    /\ UNCHANGED <<cfg, removed_tracks>>
    /\ UNCHANGED trackVars
    /\ UNCHANGED serviceVars

CycleReIdentified(d) ==
    /\ cycles < MaxCycles
    /\ Live = {}
    /\ ReIdentifies(d)
    /\ \E id \in Retained :
          table' = Single(id, Reactivated(removed_tracks[id], d))
    /\ removed_tracks' = EmptyTable
    /\ misses' = 0
    /\ cycles' = cycles + 1
    /\ event' = "reidentified"
    /\ UNCHANGED <<cfg, next_id>>
    /\ UNCHANGED trackVars
    /\ UNCHANGED serviceVars

NextLifecycle ==
    \/ \E d \in Detections : CycleMatched(d)
    \/ CycleUnmatched
    \/ \E d \in Detections : CycleNewCandidate(d)
    \/ \E d \in Detections : CycleReIdentified(d)

LifecycleSpec == InitLifecycle /\ [][NextLifecycle]_vars

----------------------------------------------------------------------------
(* Properties of Track, under TrackSpec *)

\* C5: after any sequence of Track operations age >= 0 and persistence >= 0,
\* and no operation makes persistence smaller than it was.
C5_AgePersistenceNonNegativeMonotone ==
    /\ [](t.age >= 0 /\ t.persistence >= 0)
    /\ [][t'.persistence >= t.persistence]_vars

\* C5 witness: a track that has been matched, counted and then missed.
C5_Witness ==
    /\ Len(t.history) >= 2
    /\ t.persistence >= 1
    /\ t.age >= 1

\* C7: a track created with an ordered box and updated only with ordered
\* boxes has an ordered bbox in every reachable state.
C7_BboxAlwaysOrdered == Ordered(t.bbox)

\* No point lies strictly inside both boxes.
Disjoint(a, b) ==
    \/ Min(a[3], b[3]) <= Max(a[1], b[1])
    \/ Min(a[4], b[4]) <= Max(a[2], b[2])

\* C10: iou never divides by zero, is exactly 1 for a box equal to a
\* predicted_bbox of positive area, is 0 when the boxes are disjoint or one
\* of them has no positive area, and lies in [0, 1] for two ordered boxes.
C10_Iou ==
    iou_call.called =>
        LET p == t.predicted_bbox
            b == iou_call.bbox
            r == iou_call.result
        IN  /\ r.den # 0
            /\ (b = p /\ PositiveArea(p)) => (r.num = r.den)
            /\ (Disjoint(p, b) \/ ~PositiveArea(p) \/ ~PositiveArea(b))
                  => (r.num = 0)
            /\ (Ordered(p) /\ Ordered(b)) => (0 <= r.num /\ r.num <= r.den)

\* C10 witness: after an update that moved the track, iou of the predicted
\* box with itself was computed and is 1.
C10_Witness ==
    /\ iou_call.called
    /\ Len(t.history) >= 2
    /\ t.predicted_bbox # t.bbox
    /\ iou_call.bbox = t.predicted_bbox
    /\ PositiveArea(t.predicted_bbox)
    /\ iou_call.result.num = iou_call.result.den

----------------------------------------------------------------------------
(* Properties of the lifecycle, under LifecycleSpec *)

\* C6: a live track's min_persistence is the configured
\* min_track_persistence, and the track is a candidate exactly while its
\* persistence is below that threshold.
C6_CandidateUntilConfiguredPersistence ==
    \A id \in Live :
        /\ table[id].min_persistence = cfg.min_track_persistence
        /\ table[id].is_candidate
              <=> (table[id].persistence < table[id].min_persistence)

\* C8: a track is live exactly while its consecutive misses do not exceed
\* max_age_track; it is removed by the miss that takes them to
\* max_age_track + 1, whatever its persistence, and a match resets the count.
C8_RemovedIffAgeExceedsMax ==
    /\ \A id \in Live :
          /\ table[id].age = misses
          /\ misses <= cfg.max_age_track
    /\ (event = "removed") =>
          /\ Live = {}
          /\ misses = cfg.max_age_track + 1
          /\ \A id \in Retained : removed_tracks[id].age = misses
    /\ (event = "matched") => (misses = 0 /\ \A id \in Live : table[id].age = 0)
    /\ (Live = {}) => event \in {"none", "removed"}

\* C8 witness: max_age_track = 3, and a confirmed track has just been
\* removed by its fourth consecutive miss.
C8_Witness ==
    /\ cfg.max_age_track = 3
    /\ event = "removed"
    /\ misses = 4
    /\ \E id \in Retained : removed_tracks[id].persistence >= 2

\* C9: a re-identified detection is tracked under the removed track's id,
\* with the persistence and the candidate status it had when removed.
C9_ReIdentifiedResumes ==
    [][ (event' = "reidentified") =>
            \E id \in Retained :
                /\ DOMAIN table' = {id}
                /\ table'[id].track_id = removed_tracks[id].track_id
                /\ table'[id].track_id = id
                /\ table'[id].persistence = removed_tracks[id].persistence
                /\ table'[id].is_candidate = removed_tracks[id].is_candidate
                /\ table'[id].age = 0 ]_vars

\* C9 witness: a confirmed track with persistence 2 was removed and has come
\* back under its id, confirmed and with persistence 2.
C9_Witness ==
    /\ event = "reidentified"
    /\ \E id \in Live :
          /\ table[id].persistence = 2
          /\ ~table[id].is_candidate
          /\ table[id].track_id = id
          /\ id < next_id

----------------------------------------------------------------------------
(* Spec: the service.  reconfigure is synchronous and runs in one step; a   *)
(* stop_and_get_new_tracker task and close are suspended once, at their     *)
(* "await self.tracker.stop()".                                             *)

CameraNames == {"cam1", "cam2"}

DetectorNames == {"", "det1"}

EmbedderNames == {"", "emb1"}

\* The dependencies handed to reconfigure: all resources, or all but one
\* of those a configuration may name.
DependencySets ==
    { {"cam1", "cam2", "det1", "emb1"},
      {"cam1", "det1", "emb1"},
      {"cam1", "cam2", "emb1"},
      {"cam1", "cam2", "det1"} }

NotPassed == [kind |-> "NotPassed", service |-> "", config |-> 0]

\* The engine, constructed and not started.  Its class is not part of the
\* source tree: it keeps what it was constructed from and has a run state.
Tracker(tracker_cfg, cam, det, emb) ==
    [ state    |-> "constructed",
      config   |-> tracker_cfg,
      camera   |-> cam,
      detector |-> det,
      embedder |-> emb ]

\* Tracker.start: the background loop runs.
start(engine) == [engine EXCEPT !.state = "running"]

\* Tracker.stop, up to its suspension: a running loop is told to stop after
\* its cycle in flight; stopping a loop that is not running is a no-op.
stop(engine) ==
    IF engine.state = "running" THEN [engine EXCEPT !.state = "stopping"]
                                ELSE engine

TorchvisionDetector(tracker_cfg) ==
    [kind |-> "TorchvisionDetector", service |-> "", config |-> tracker_cfg]

CustomVisionServiceDetector(tracker_cfg, vision_service) ==
    [kind |-> "CustomVisionServiceDetector", service |-> vision_service,
     config |-> tracker_cfg]

CustomMLModelServiceEmbedder(tracker_cfg, ml_model_service) ==
    [kind |-> "CustomMLModelServiceEmbedder", service |-> ml_model_service,
     config |-> tracker_cfg]

\* TrackerService.reconfigure.  config.valid is the verdict of
\* TrackerConfig(config); a dependency lookup of an absent name raises.
reconfigure(config, dependencies) ==
    /\ reconfigures < MaxReconfigures
    /\ reconfigures' = reconfigures + 1
    /\ IF ~config.valid
       THEN /\ reconfigure_result' = "error"
            /\ UNCHANGED <<camera_name, camera, detector, embedder, tracker,
                           engines, tasks>>
       ELSE IF config.camera_name \notin dependencies
       THEN /\ camera_name' = config.camera_name
            /\ reconfigure_result' = "error"
            /\ UNCHANGED <<camera, detector, embedder, tracker, engines, tasks>>
       ELSE IF config.detector_name # "" /\ config.detector_name \notin dependencies
       THEN /\ camera_name' = config.camera_name
            /\ camera' = config.camera_name
            /\ reconfigure_result' = "error"
            /\ UNCHANGED <<detector, embedder, tracker, engines, tasks>>
       ELSE LET new_detector ==
                    IF config.detector_name = ""
                    THEN TorchvisionDetector(config.id)
                    ELSE CustomVisionServiceDetector(config.id, config.detector_name)
            IN
            IF config.embedder_name # "" /\ config.embedder_name \notin dependencies
            THEN /\ camera_name' = config.camera_name
                 /\ camera' = config.camera_name
                 /\ detector' = new_detector
                 /\ reconfigure_result' = "error"
                 /\ UNCHANGED <<embedder, tracker, engines, tasks>>
            ELSE LET new_embedder ==
                         IF config.embedder_name = ""
                         THEN CustomMLModelServiceEmbedder(config.id, "FAKE_NAME")
                         ELSE CustomMLModelServiceEmbedder(config.id, config.embedder_name)
                 IN  /\ camera_name' = config.camera_name
                     /\ camera' = config.camera_name
                     /\ detector' = new_detector
                     /\ embedder' = new_embedder
                     /\ reconfigure_result' = "ok"
                     /\ IF tracker # None
                        THEN /\ tasks' = tasks \cup
                                   {[config |-> config.id, pc |-> "created",
                                     target |-> None, closed |-> closes > 0]}
                             /\ UNCHANGED <<tracker, engines>>
                        ELSE /\ engines' = Append(engines,
                                   start(Tracker(config.id, config.camera_name,
                                                 new_detector, new_embedder)))
                             /\ tracker' = Len(engines) + 1
                             /\ UNCHANGED tasks
    /\ UNCHANGED <<close_pc, close_target, closes, closes_ok, close_result, response>>
    /\ UNCHANGED <<trackVars, lifecycleVars>>

\* stop_and_get_new_tracker, from the task's first step to its await:
\* self.tracker is read now, and that engine is asked to stop.  Tasks take
\* their first step in the order they were created.
stop_and_get_new_tracker_begin(task) ==
    /\ task.pc = "created"
    /\ \A other \in tasks : other.pc = "created" => other.config >= task.config
    /\ engines' = [engines EXCEPT ![tracker] = stop(@)]
    /\ tasks' = (tasks \ {task}) \cup
                    {[task EXCEPT !.pc = "awaiting", !.target = tracker]}
    /\ UNCHANGED <<camera_name, camera, detector, embedder, tracker,
                   reconfigures, reconfigure_result, close_pc, close_target,
                   closes, closes_ok, close_result, response>>
    /\ UNCHANGED <<trackVars, lifecycleVars>>

\* The engine's loop finishes its cycle in flight and ends: every stop
\* awaited on it can return.
EngineStops(e) ==
    /\ engines[e].state = "stopping"
    /\ engines' = [engines EXCEPT ![e].state = "stopped"]
    /\ UNCHANGED <<camera_name, camera, detector, embedder, tracker, tasks,
                   reconfigures, reconfigure_result, close_pc, close_target,
                   closes, closes_ok, close_result, response>>
    /\ UNCHANGED <<trackVars, lifecycleVars>>

\* stop_and_get_new_tracker, after its await: a new engine from the task's
\* configuration and the service's camera and detector as they are now (no
\* embedder is passed), made current and started.
stop_and_get_new_tracker_resume(task) ==
    /\ task.pc = "awaiting"
    /\ engines[task.target].state = "stopped"
    /\ engines' = Append(engines,
                         start(Tracker(task.config, camera, detector, NotPassed)))
    /\ tracker' = Len(engines) + 1
    /\ tasks' = tasks \ {task}
    /\ UNCHANGED <<camera_name, camera, detector, embedder, reconfigures,
                   reconfigure_result, close_pc, close_target, closes,
                   closes_ok, close_result, response>>
    /\ UNCHANGED <<trackVars, lifecycleVars>>

\* TrackerService.close, up to its await: self.tracker.stop() is called; on a
\* service without an engine the attribute lookup on None raises.
close_begin ==
    /\ closes < MaxCloses
    /\ close_pc = "idle"
    /\ closes' = closes + 1
    /\ IF tracker = None
       THEN /\ close_result' = "error"
            /\ UNCHANGED <<engines, close_pc, close_target>>
       ELSE /\ engines' = [engines EXCEPT ![tracker] = stop(@)]
            /\ close_pc' = "awaiting"
            /\ close_target' = tracker
            /\ close_result' = "none"
    /\ UNCHANGED <<camera_name, camera, detector, embedder, tracker, tasks,
                   reconfigures, reconfigure_result, closes_ok, response>>
    /\ UNCHANGED <<trackVars, lifecycleVars>>

\* close_end with a fault: close also drops the service's engine.
close_end_drops_tracker ==
    /\ close_pc = "awaiting"
    /\ engines[close_target].state = "stopped"
    /\ close_pc' = "idle"
    /\ close_result' = "ok"
    /\ closes_ok' = closes_ok + 1
    /\ tracker' = None
    /\ UNCHANGED <<camera_name, camera, detector, embedder, engines, tasks,
                   reconfigures, reconfigure_result, close_target, closes,
                   response>>
    /\ UNCHANGED <<trackVars, lifecycleVars>>

\* TrackerService.close, after its await: super().close() and return.
close_end ==
    /\ close_pc = "awaiting"
    /\ engines[close_target].state = "stopped"
    /\ close_pc' = "idle"
    /\ close_result' = "ok"
    /\ closes_ok' = closes_ok + 1
    /\ UNCHANGED <<camera_name, camera, detector, embedder, tracker, engines,
                   tasks, reconfigures, reconfigure_result, close_target,
                   closes, response>>
    /\ UNCHANGED <<trackVars, lifecycleVars>>

----------------------------------------------------------------------------
(* Reader requests.  A response is how the call ended: "raised" with the    *)
(* exception, or "returned" with the value.                                 *)

Response(method, return_classifications, return_object_point_clouds, outcome, value) ==
    [ method                     |-> method,
      return_classifications     |-> return_classifications,
      return_object_point_clouds |-> return_object_point_clouds,
      outcome                    |-> outcome,
      value                      |-> value ]

\* A request ends with its response; it changes nothing in the service.
Answer(r) ==
    /\ response' = r
    /\ UNCHANGED <<camera_name, camera, detector, embedder, tracker, engines,
                   tasks, reconfigures, reconfigure_result, close_pc,
                   close_target, closes, closes_ok, close_result>>
    /\ UNCHANGED <<trackVars, lifecycleVars>>

\* A CaptureAllResult carries an image and detections, nothing else.
capture_all_from_camera(name, return_image, return_classifications, return_detections, return_object_point_clouds) ==
    Answer(IF name # camera_name
           THEN Response("capture_all_from_camera", return_classifications,
                         return_object_point_clouds, "raised", "ValueError")
           ELSE Response("capture_all_from_camera", return_classifications,
                         return_object_point_clouds, "returned",
                         [image      |-> IF return_image THEN "image" ELSE "None",
                          detections |-> IF return_detections THEN "detections"
                                                              ELSE "None"]))

get_object_point_clouds ==
    Answer(Response("get_object_point_clouds", FALSE, FALSE,
                    "raised", "NotImplementedError"))

get_detections ==
    Answer(Response("get_detections", FALSE, FALSE,
                    "returned", "NotImplementedError"))

get_classifications ==
    Answer(Response("get_classifications", FALSE, FALSE,
                    "returned", "NotImplementedError"))

get_classifications_from_camera ==
    Answer(Response("get_classifications_from_camera", FALSE, FALSE,
                    "returned", "NotImplementedError"))

get_detections_from_camera(name) ==
    Answer(IF name # camera_name /\ name # ""
           THEN Response("get_detections_from_camera", FALSE, FALSE,
                         "raised", "ValueError")
           ELSE Response("get_detections_from_camera", FALSE, FALSE,
                         "returned", "detections"))

\* TrackerService.new_service: the constructor, then the first reconfigure,
\* which finds no engine and so constructs and starts one itself.  The
\* service exists only if that reconfigure did not raise.
new_service(config, dependencies) ==
    LET new_detector ==
            IF config.detector_name = ""
            THEN TorchvisionDetector(config.id)
            ELSE CustomVisionServiceDetector(config.id, config.detector_name)
        new_embedder ==
            IF config.embedder_name = ""
            THEN CustomMLModelServiceEmbedder(config.id, "FAKE_NAME")
            ELSE CustomMLModelServiceEmbedder(config.id, config.embedder_name)
    IN  /\ config.valid
        /\ {config.camera_name, config.detector_name, config.embedder_name}
              \subseteq dependencies \cup {""}
        /\ camera_name = config.camera_name
        /\ camera = config.camera_name
        /\ detector = new_detector
        /\ embedder = new_embedder
        /\ engines = <<start(Tracker(config.id, config.camera_name,
                                     new_detector, new_embedder))>>
        /\ tracker = 1
        /\ tasks = {}
        /\ reconfigures = 1
        /\ reconfigure_result = "ok"
        /\ close_pc = "idle"
        /\ close_target = None
        /\ closes = 0
        /\ closes_ok = 0
        /\ close_result = "none"
        /\ response = NoResponse

\* The configurations reconfigure is called with: the default detector and
\* embedder on cam1, or det1 and emb1 on cam2; valid or not.
Configs(id) ==
    { [id |-> id, valid |-> v, camera_name |-> n[1], detector_name |-> n[2],
       embedder_name |-> n[3]] :
          v \in BOOLEAN, n \in {<<"cam1", "", "">>, <<"cam2", "det1", "emb1">>} }

AllDependencies == {"cam1", "cam2", "det1", "emb1"}

\* The calls of reconfigure: a configuration and the dependencies handed
\* over with it.  A dependency is left out only where the configuration
\* is valid and names it.
ReconfigureCalls(id) ==
    { call \in Configs(id) \X DependencySets :
          \/ call[2] = AllDependencies
          \/ /\ call[1].valid
             /\ \E name \in {call[1].camera_name, call[1].detector_name,
                               call[1].embedder_name} :
                    name # "" /\ name \notin call[2] }

\* The flag combinations capture_all_from_camera is called with: image,
\* classifications, detections, object point clouds.
CaptureFlags ==
    { <<FALSE, FALSE, FALSE, FALSE>>,
      <<TRUE, FALSE, TRUE, FALSE>>,
      <<FALSE, TRUE, TRUE, FALSE>>,
      <<FALSE, FALSE, FALSE, TRUE>>,
      <<TRUE, TRUE, TRUE, TRUE>> }

Init ==
    /\ \E call \in ReconfigureCalls(1) : new_service(call[1], call[2])
    /\ TrackIdle
    /\ LifecycleIdle

Next ==
    \/ \E call \in ReconfigureCalls(reconfigures + 1) :
          reconfigure(call[1], call[2])
    \/ \E task \in tasks : stop_and_get_new_tracker_begin(task)
    \/ \E e \in 1..Len(engines) : EngineStops(e)
    \/ \E task \in tasks : stop_and_get_new_tracker_resume(task)
    \/ close_begin
    \/ close_end
    \/ \E name \in CameraNames, f \in CaptureFlags :
          capture_all_from_camera(name, f[1], f[2], f[3], f[4])
    \/ get_object_point_clouds
    \/ get_detections
    \/ get_classifications
    \/ get_classifications_from_camera
    \/ \E name \in CameraNames \cup {""} : get_detections_from_camera(name)

Spec == Init /\ [][Next]_vars

----------------------------------------------------------------------------
(* Properties of the service, under Spec *)

\* Engines started and not yet stopped.
Active == {e \in 1..Len(engines) : engines[e].state # "stopped"}

\* C1: at most one engine is started and not yet stopped at any moment, and
\* an engine that is started and not stopped is the service's current one.
C1_AtMostOneEngineRunning ==
    /\ Cardinality(Active) <= 1
    /\ \A e \in Active : e = tracker

\* C2: a reconfigure call that fails has no effect: the engine is neither
\* stopped nor replaced, and camera_name, camera, detector and embedder keep
\* their values.
C2_FailedReconfigureHasNoEffect ==
    [][ (reconfigures' = reconfigures + 1 /\ reconfigure_result' = "error") =>
            /\ camera_name' = camera_name
            /\ camera' = camera
            /\ detector' = detector
            /\ embedder' = embedder
            /\ tracker' = tracker
            /\ engines' = engines
            /\ tasks' = tasks ]_vars

\* A request for an output kind the service does not produce.
Unsupported(r) ==
    \/ r.method \in {"get_object_point_clouds", "get_classifications",
                     "get_classifications_from_camera", "get_detections"}
    \/ /\ r.method = "capture_all_from_camera"
       /\ r.return_classifications \/ r.return_object_point_clouds

\* C3: every request for an output kind the service does not produce ends
\* in a raised not-implemented error, never in a normal return.
C3_UnsupportedRequestRaisesNotImplemented ==
    Unsupported(response) =>
        (response.outcome = "raised" /\ response.value = "NotImplementedError")

\* C4: a close call on a service that has already been closed returns
\* without an error, and a close call that finds the engine stopped leaves
\* the engines and the service's engine as they are.
C4_CloseIdempotent ==
    [][ /\ (closes' = closes + 1 /\ closes_ok >= 1) => close_result' # "error"
        /\ (close_pc = "awaiting" /\ close_pc' = "idle") => close_result' = "ok"
        /\ ( /\ closes' = closes + 1 \/ closes_ok' = closes_ok + 1
             /\ tracker # None
             /\ engines[tracker].state = "stopped" ) =>
                (engines' = engines /\ tracker' = tracker) ]_vars

\* C4 witness: two close calls have returned on a service whose only engine
\* the first of them stopped.
C4_Witness ==
    /\ closes_ok = 2
    /\ close_result = "ok"
    /\ Len(engines) = 1
    /\ tracker = 1
    /\ engines[1].state = "stopped"

\* C15: a stop_and_get_new_tracker task that was pending when a close call
\* began does not construct and start an engine once that close has
\* returned, so that after close and the end of every task no engine runs.
C15_NoEngineStartedAfterClose ==
    [][ \A task \in tasks :
           ( /\ ~task.closed
             /\ closes_ok >= 1
             /\ task.pc = "awaiting"
             /\ task \notin tasks' ) =>
                engines' = engines ]_vars

\* C20: every engine is constructed from its configuration with the camera,
\* the detector and the embedder selected by the reconfigure call of that
\* configuration, and the engine in use has the service's current embedder.
C20_EngineHasCollaboratorsOfItsReconfigure ==
    /\ \A e \in 1..Len(engines) :
          /\ engines[e].camera \in CameraNames
          /\ engines[e].detector.config = engines[e].config
          /\ engines[e].embedder.kind = "CustomMLModelServiceEmbedder"
          /\ engines[e].embedder.config = engines[e].config
    /\ (tracker # None /\ tasks = {}) => engines[tracker].embedder = embedder

\* C21: once every stop_and_get_new_tracker task has completed, the
\* service's current engine is the one constructed from the configuration
\* of the most recent successful reconfigure call, in whatever order the
\* tasks resumed.  Configurations are numbered by their reconfigure call.
C21_CurrentEngineIsFromLastReconfigure ==
    (tracker # None /\ tasks = {}) =>
        \A e \in 1..Len(engines) : engines[e].config <= engines[tracker].config

----------------------------------------------------------------------------
(* Further properties of Track, under TrackSpec *)

\* The last box given to the constructor or to update, and the one before.
LastObserved == t.history[Len(t.history)]

PreviouslyObserved == t.history[Len(t.history) - 1]

C12_StaticScene ==
    [][ (Len(t'.history) = Len(t.history) + 1) =>
          /\ t'.age = 0
          /\ t'.track_id = t.track_id
          /\ ( /\ t.age = 0
               /\ t'.bbox = t.bbox
               /\ t'.feature_vector = t.feature_vector ) =>
                 /\ t'.velocity = ZeroVelocity
                 /\ t'.predicted_bbox = t'.bbox
                 /\ (t.velocity = ZeroVelocity /\ t'.distance = t.distance) =>
                       t' = [t EXCEPT !.history = Append(t.history, t.bbox)] ]_vars

\* C12 witness: a track that moved, then received the same detection twice.
C12_Witness ==
    /\ Len(t.history) = 4
    /\ t.history[1] # t.history[2]
    /\ t.history[2] = t.history[3]
    /\ t.history[3] = t.history[4]
    /\ t.age = 0
    /\ t.velocity = ZeroVelocity
    /\ t.predicted_bbox = t.bbox

\* C16: in every reachable state predicted_bbox = bbox + velocity.
C16_PredictedIsBboxPlusVelocity ==
    t.predicted_bbox = BoxAdd(t.bbox, t.velocity)

\* C17: velocity is zero at creation and otherwise the difference between
\* the last observed bbox and the one observed before it, misses or not.
C17_VelocityIsFirstDifference ==
    t.velocity = IF Len(t.history) = 1 THEN ZeroVelocity
                 ELSE BoxSub(LastObserved, PreviouslyObserved)

----------------------------------------------------------------------------
(* Further properties of the lifecycle, under LifecycleSpec *)

\* The track as the cycle left it, live or retained.
After(id) == IF id \in DOMAIN table' THEN table'[id] ELSE removed_tracks'[id]

\* C18: a cycle that matches an existing track leaves it with the bbox,
\* feature_vector and distance of the matched detection, age = 0,
\* persistence one greater than before and is_detected() true, whatever
\* its state before the match.
C18_MatchedTrackTakesDetection ==
    [][ (event' = "matched") =>
          \A id \in Live :
             /\ \E d \in Detections :
                   /\ table'[id].bbox = d.bbox
                   /\ table'[id].feature_vector = d.feature_vector
                   /\ table'[id].distance = d.distance
             /\ table'[id].age = 0
             /\ get_persistence(table'[id]) = get_persistence(table[id]) + 1
             /\ is_detected(table'[id]) ]_vars

\* C18 witness: a moving track has just been matched by a detection with
\* another feature vector than the one it was created with.
C18_Witness ==
    /\ event = "matched"
    /\ \E id \in Live :
          /\ table[id].feature_vector = "f2"
          /\ table[id].distance = 45
          /\ table[id].velocity \notin {ZeroVelocity, <<2, 2, -2, -2>>}
          /\ table[id].age = 0
          /\ get_persistence(table[id]) = 2
          /\ is_detected(table[id])

\* C19: a cycle in which an existing track is unmatched raises its age by
\* exactly 1, moves its bbox to the old bbox + velocity and makes
\* is_detected() false; persistence, velocity, feature_vector, distance,
\* history, track_id and is_candidate stay as they were.
C19_UnmatchedTrackFrame ==
    [][ (event' \in {"unmatched", "removed"}) =>
          \A id \in Live :
             /\ After(id).age = table[id].age + 1
             /\ After(id).bbox = BoxAdd(table[id].bbox, table[id].velocity)
             /\ ~is_detected(After(id))
             /\ get_persistence(After(id)) = get_persistence(table[id])
             /\ After(id).velocity = table[id].velocity
             /\ After(id).feature_vector = table[id].feature_vector
             /\ After(id).distance = table[id].distance
             /\ After(id).history = table[id].history
             /\ After(id).track_id = table[id].track_id
             /\ After(id).is_candidate = table[id].is_candidate ]_vars

\* C19 witness: a moving, matched track has missed two cycles in a row.
C19_Witness ==
    /\ event = "unmatched"
    /\ \E id \in Live :
          /\ table[id].age = 2
          /\ table[id].velocity = <<1, 1, 1, 1>>
          /\ table[id].bbox = <<3, 3, 9, 9>>
          /\ Len(table[id].history) = 2
          /\ get_persistence(table[id]) = 2
          /\ ~is_detected(table[id])

----------------------------------------------------------------------------
(* Properties of get_detection, under DetectionSpec *)

\* get_detection was called with a crop region on the track as it is now.
Cropped == detection_call.called /\ detection_call.crop_region # NoCrop

\* The track's box is ordered and lies inside the cropped sub-window.
InsideCrop ==
    LET c == detection_call.crop_region
    IN  /\ 0 <= t.bbox[1] /\ t.bbox[1] <= t.bbox[3]
        /\ 0 <= t.bbox[2] /\ t.bbox[2] <= t.bbox[4]
        /\ 100 * t.bbox[3] <= (c.x2_rel - c.x1_rel) * detection_call.original_image_width
        /\ 100 * t.bbox[4] <= (c.y2_rel - c.y1_rel) * detection_call.original_image_height

Filled(bar) == Cardinality({i \in DOMAIN bar : bar[i] = "*"})

\* C14: the Detection a track is read as has confidence 1 - the distance of
\* the detection it last took (at its last update, or at creation), and the
\* distance changes in no other step; its class name is the progress
\* indicator when is_candidate and the track_id otherwise.
C14_ConfidenceAndClassName ==
    /\ []( detection_call.called =>
            LET r == detection_call.result
            IN  /\ \E d \in LocalDetections :
                      /\ d.bbox = LastObserved
                      /\ r.confidence = 100 - d.distance
                /\ IF t.is_candidate
                   THEN /\ DOMAIN r.class_name = {"text", "bar"}
                        /\ r.class_name.text = "tracking"
                        /\ Len(r.class_name.bar) = t.min_persistence
                        /\ Filled(r.class_name.bar)
                              = Min(get_persistence(t), t.min_persistence)
                   ELSE r.class_name = t.track_id )
    /\ [][ (t'.distance # t.distance) =>
              (Len(t'.history) = Len(t.history) + 1) ]_vars

\* C14 witness: a candidate matched once and missed once since is read; it
\* shows one filled cell and the confidence of its last match.
C14_Witness ==
    /\ detection_call.called
    /\ t.is_candidate
    /\ t.age = 1
    /\ Len(t.history) = 2
    /\ get_persistence(t) = 1
    /\ detection_call.result.confidence = 95
    /\ detection_call.result.class_name.bar = <<"*", ".", ".">>

----------------------------------------------------------------------------
(* Creation of a track, under LifecycleSpec, and its history, under TrackSpec *)

\* Every id the table holds or retains.
KnownIds == Live \cup Retained

\* C22: a track created for an unmatched, not re-identified detection is a
\* candidate with an id no track had before, age = 0, zero velocity,
\* predicted_bbox = bbox, a history holding exactly its initial bbox, and
\* persistence 1 once the cycle that created it is over.
C22_NewTrackIsFreshCandidate ==
    [][ (event' = "created") =>
          \A id \in DOMAIN table' :
             /\ id \notin KnownIds
             /\ id >= next_id
             /\ next_id' > id
             /\ table'[id].track_id = id
             /\ table'[id].is_candidate
             /\ table'[id].age = 0
             /\ table'[id].velocity = ZeroVelocity
             /\ table'[id].predicted_bbox = table'[id].bbox
             /\ table'[id].history = <<table'[id].bbox>>
             /\ table'[id].bbox \in Boxes
             /\ get_persistence(table'[id]) = 1 ]_vars

\* C22 witness: a second track has just been created, after the first was
\* evicted and a detection came that was not re-identified as it.
C22_Witness ==
    /\ event = "created"
    /\ Retained = {1}
    /\ Live = {2}
    /\ table[2].is_candidate
    /\ table[2].history = <<table[2].bbox>>
    /\ get_persistence(table[2]) = 1
    /\ table[2].age = 0

\* C23: the history starts with one entry; every update appends the box it
\* was given, which is then the track's bbox, and leaves the earlier entries
\* as they were; no other operation, increment_age included, changes the
\* history, so its length is 1 + the number of updates.
C23_HistoryAppendOnly ==
    /\ [](Len(t.history) >= 1 /\ Len(t.history) <= 1 + ops)
    /\ [](ops = 0 => t.history = <<t.bbox>>)
    /\ [][ \A d \in Detections \cup PredictedDetections :
              Update(d) => /\ t'.history = Append(t.history, d.bbox)
                           /\ t'.history[Len(t'.history)] = t'.bbox ]_vars
    /\ [][ IncrementAge => t'.history = t.history ]_vars
    /\ [][ (t'.history # t.history) =>
              /\ Len(t'.history) = Len(t.history) + 1
              /\ t'.age = 0
              /\ \A i \in 1..Len(t.history) : t'.history[i] = t.history[i] ]_vars

\* C23 witness: a track updated twice and then missed keeps its three
\* observed boxes while its bbox has moved on.
C23_Witness ==
    /\ Len(t.history) = 3
    /\ ops = 3
    /\ t.age = 1
    /\ t.history[1] # t.history[2]
    /\ t.history[2] # t.history[3]
    /\ t.bbox # t.history[3]

====
